---------------------------- MODULE Spec2Model ----------------------------
(***************************************************************************)
(* Model of the fitnosh Instagram image generator: the HTTP service that   *)
(* asks an external API for a food photo, composes logo and labels onto    *)
(* it, stores the result in the working directory and serves it back.      *)
(* Two versions of the service are modelled: src/index.js (version 1) and  *)
(* src/unnamed/part_000 (version 2, the later one).                        *)
(*                                                                         *)
(* Strings are sequences of one-character strings, so that toLowerCase,    *)
(* the file-name templates and the regular expression of the janitor are   *)
(* computed character by character.                                        *)
(***************************************************************************)
EXTENDS Integers, Sequences, FiniteSets, TLC

(***************************************************************************)
(* Bounds of the model.                                                    *)
(***************************************************************************)
\* generateMealImage calls started in a behaviour of Spec (any bodies, one
\* request at a time)
MaxGen == 2
\* generateMealImage calls started in a behaviour of ConcSpec (two in flight)
MaxConcGen == 2
\* generateMealImage calls started in a behaviour of SeqSpec (one at a time)
MaxSeqGen == 12
\* generateMealImage calls started in a behaviour of JanitorSpec (one at a
\* time, unlinks may fail)
MaxJanitorGen == 13
\* generateMealImage calls started in a behaviour of LiveSpec (two in flight)
MaxLiveGen == 2

(***************************************************************************)
(* Characters and strings.                                                 *)
(***************************************************************************)
LowerLetters ==
    {"a","b","c","d","e","f","g","h","i","j","k","l","m",
     "n","o","p","q","r","s","t","u","v","w","x","y","z"}

UpperLetters ==
    {"A","B","C","D","E","F","G","H","I","J","K","L","M",
     "N","O","P","Q","R","S","T","U","V","W","X","Y","Z"}

DigitChars == {"0","1","2","3","4","5","6","7","8","9"}

\* \w of a JavaScript regular expression
WordChars == LowerLetters \cup UpperLetters \cup DigitChars \cup {"_"}

\* [a-f0-9]
HexChars == {"a","b","c","d","e","f"} \cup DigitChars

UpperSeq ==
    <<"A","B","C","D","E","F","G","H","I","J","K","L","M",
      "N","O","P","Q","R","S","T","U","V","W","X","Y","Z">>

LowerSeq ==
    <<"a","b","c","d","e","f","g","h","i","j","k","l","m",
      "n","o","p","q","r","s","t","u","v","w","x","y","z">>

\* one character of String.prototype.toLowerCase
LowerChar(c) ==
    IF c \in UpperLetters
      THEN LowerSeq[CHOOSE i \in 1..26 : UpperSeq[i] = c]
      ELSE c

\* String.prototype.toLowerCase
toLowerCase(s) == [i \in 1..Len(s) |-> LowerChar(s[i])]

DigitSeq == <<"0","1","2","3","4","5","6","7","8","9">>

RECURSIVE Decimal(_)
\* the decimal digits of a non-negative number, as template interpolation
\* `${timestamp}` writes them
Decimal(n) ==
    IF n < 10 THEN <<DigitSeq[n + 1]>>
    ELSE Decimal(n \div 10) \o <<DigitSeq[(n % 10) + 1]>>

\* String.prototype.endsWith
endsWith(s, suf) ==
    /\ Len(suf) <= Len(s)
    /\ SubSeq(s, Len(s) - Len(suf) + 1, Len(s)) = suf

AllIn(s, a, b, S) == \A i \in a..b : s[i] \in S

StrMeals == <<"-","m","e","a","l","s">>
StrPng == <<".","p","n","g">>
StrTemp == <<"t","e","m","p","-">>
StrBase == <<"-","b","a","s","e">>
StrDash == <<"-">>

\* file.match(/^\w+-meals-\d+-[a-f0-9]+\.png$/)
\* i: last character of \w+, j: last digit of \d+, the hex run ends before .png
MatchesGenerated(f) ==
    LET n == Len(f) IN
    /\ n >= 4
    /\ SubSeq(f, n - 3, n) = StrPng
    /\ \E i \in 1..(n - 7) :
         /\ SubSeq(f, i + 1, i + 7) = StrMeals \o StrDash
         /\ AllIn(f, 1, i, WordChars)
         /\ \E j \in (i + 8)..(n - 6) :
              /\ f[j + 1] = "-"
              /\ AllIn(f, i + 8, j, DigitChars)
              /\ AllIn(f, j + 2, n - 4, HexChars)

\* file.endsWith('-meals.png') || file.endsWith('-meals-image.png')
MatchesGeneratedV1(f) ==
    \/ endsWith(f, StrMeals \o StrPng)
    \/ endsWith(f, StrMeals \o <<"-","i","m","a","g","e">> \o StrPng)

(***************************************************************************)
(* JavaScript values of the request body.                                  *)
(***************************************************************************)
Undefined == [t |-> "undefined"]
Null == [t |-> "null"]
Str(s) == [t |-> "string", v |-> s]
Num(n) == [t |-> "number", v |-> n]

\* the truthiness `a || b` tests
Truthy(x) ==
    CASE x.t = "string" -> x.v # <<>>
      [] x.t = "number" -> x.v # 0
      [] x.t = "object" -> TRUE
      [] x.t = "array" -> TRUE
      [] OTHER -> FALSE

Fields == {"Day", "Breakfast", "Snack", "Lunch"}

\* an object with the given properties (a function from a subset of Fields)
Obj(props) == [t |-> "object", p |-> props]
Arr(elems) == [t |-> "array", e |-> elems]

\* property access x.f: a TypeError on undefined and null, undefined when
\* the property is absent (also on an array, which has no such property)
CanRead(x) == x.t \notin {"undefined", "null"}

Get(x, f) ==
    IF x.t = "object" /\ f \in DOMAIN x.p THEN x.p[f] ELSE Undefined

\* a || b
OrElse(a, b) == IF Truthy(a) THEN a ELSE b

(***************************************************************************)
(* Meal data.                                                              *)
(***************************************************************************)
STuesday == <<"T","u","e","s","d","a","y">>
SSmoothie == <<"S","m","o","o","t","h","i","e">>
SNuts == <<"N","u","t","s">>
SRoti == <<"R","o","t","i">>
SFriday == <<"F","r","i","d","a","y">>
SIdli == <<"I","d","l","i">>
SChai == <<"C","h","a","i">>
SDosa == <<"D","o","s","a">>
SDayOne == <<"D","a","y"," ","1">>

\* defaultMeal (the dish names are shortened)
defaultMeal ==
    Obj([Day |-> Str(STuesday), Breakfast |-> Str(SSmoothie),
         Snack |-> Str(SNuts), Lunch |-> Str(SRoti)])

MealFriday ==
    Obj([Day |-> Str(SFriday), Breakfast |-> Str(SIdli),
         Snack |-> Str(SChai), Lunch |-> Str(SDosa)])

\* request bodies express.json() hands to the handler: an object or an array
BodyObject == MealFriday
BodyArray == Arr(<<MealFriday>>)
BodyPartial == Obj([Day |-> Str(SFriday), Lunch |-> Str(SDosa)])
BodyPartialArray == Arr(<<Obj([Breakfast |-> Str(SIdli)])>>)
BodyEmptyObject == Obj(<<>>)
BodyEmptyArray == Arr(<<>>)
BodyNullElement == Arr(<<Null>>)
BodyFalsy ==
    Obj([Day |-> Str(<<>>), Breakfast |-> Null,
         Snack |-> Num(0), Lunch |-> Str(SDosa)])
BodyNumberDay ==
    Obj([Day |-> Num(5), Breakfast |-> Str(SIdli),
         Snack |-> Str(SChai), Lunch |-> Str(SDosa)])
BodyOddDay ==
    Obj([Day |-> Str(SDayOne), Breakfast |-> Str(SIdli),
         Snack |-> Str(SChai), Lunch |-> Str(SDosa)])

AllBodies ==
    {BodyObject, BodyArray, BodyPartial, BodyPartialArray, BodyEmptyObject,
     BodyEmptyArray, BodyNullElement, BodyFalsy, BodyNumberDay, BodyOddDay}

\* version 2, lines 272-296: the meal generateMealImage works on
MealV2(mealData) ==
    LET picked ==
          IF Truthy(mealData)
            THEN IF mealData.t = "array" /\ Len(mealData.e) > 0
                   THEN mealData.e[1]
                   ELSE IF mealData.t \in {"object", "array"}
                          THEN mealData
                          ELSE defaultMeal
            ELSE defaultMeal
    IN IF CanRead(picked)
         THEN Obj([f \in Fields |-> OrElse(Get(picked, f), Get(defaultMeal, f))])
         ELSE defaultMeal

\* version 1, lines 182-184: meals = mealData || defaultMealData; meals[0]
MealV1(mealData) ==
    LET meals == OrElse(mealData, Arr(<<defaultMeal>>))
    IN IF meals.t = "array" /\ Len(meals.e) > 0 THEN meals.e[1] ELSE Undefined

(***************************************************************************)
(* The working directory, the clock and the requests in flight.            *)
(***************************************************************************)
VARIABLES
    version,   \* 1: src/index.js, 2: src/unnamed/part_000
    env,       \* what the clients of this behaviour may send
    files,     \* the working directory: file name -> [mtime, data]
    now,       \* the clock: Date.now() and the mtime of a write
    started,   \* number of generateMealImage calls started so far
    created,   \* the names of the composed files written, oldest first
    gen,       \* the generateMealImage calls, one per slot
    fetch,     \* the GET /images/:filename request
    listing,   \* the GET /images request
    ping       \* the GET /ping request

vars == <<version, env, files, now, started, created, gen, fetch, listing,
          ping>>

Slots == {1, 2}

\* maxAttempts of the retry loop
maxAttempts == 3

\* the janitor keeps this many files
KeepCount == 10

\* error.message of a failed API call
ApiErrors == {"quota exceeded", "unavailable"}

\* crypto.randomBytes(8).toString('hex'), shortened to two characters
RandomIds == {<<"a","0">>, <<"7","f">>}

LogoName ==
    <<"s","t","r","e","e","t","_","n","o","s","h","_",
      "l","o","g","o",".","p","n","g">>
SourceName == <<"i","n","d","e","x",".","j","s">>
MissingName == <<"n","o","n","e",".","p","n","g">>

\* what a file holds: an image of some kind, or something else
NoData == [kind |-> "none", by |-> 0, from |-> 0, valid |-> FALSE,
           logo |-> "none"]
LogoData == [NoData EXCEPT !.kind = "logo", !.valid = TRUE]
SourceData == [NoData EXCEPT !.kind = "source"]
\* images are tagged with the slot of the call that produced them
BaseData(id, ok) == [NoData EXCEPT !.kind = "base", !.by = id, !.valid = ok]
\* a composed image: written by call `id` over the base image of call `from`
FinalData(id, from, logo) ==
    [kind |-> "final", by |-> id, from |-> from, valid |-> TRUE, logo |-> logo]

\* fs.existsSync
existsSync(dir, name) == name \in DOMAIN dir

\* fs.writeFileSync: creates or replaces the file
writeFileSync(dir, name, data, time) ==
    [f \in DOMAIN dir \cup {name} |->
       IF f = name THEN [mtime |-> time, data |-> data] ELSE dir[f]]

\* fs.unlinkSync of files that exist
unlinkAll(dir, names) == [f \in DOMAIN dir \ names |-> dir[f]]

(***************************************************************************)
(* The janitor (version 2 only).                                           *)
(***************************************************************************)
\* the files the janitor's filter keeps
GeneratedOnDisk(dir) == {f \in DOMAIN dir : MatchesGenerated(f)}

\* position of a file in the list sorted by modification time, newest
\* first: the number of listed files that are newer
NewerThan(dir, S, f) == {g \in S : dir[g].mtime > dir[f].mtime}

\* filesToDelete with slice(9): the tenth newest file goes too
filesToDeleteFromNinth(dir) ==
    LET S == GeneratedOnDisk(dir)
    IN IF Cardinality(S) > KeepCount
         THEN {f \in S : Cardinality(NewerThan(dir, S, f)) >= KeepCount - 1}
         ELSE {}

\* filesToDelete after a sort by a.time - b.time: the newest files go
filesToDeleteNewest(dir) ==
    LET S == GeneratedOnDisk(dir)
    IN IF Cardinality(S) > KeepCount
         THEN {f \in S : Cardinality(S \ NewerThan(dir, S, f)) > KeepCount}
         ELSE {}

\* imageFiles.slice(10) after the sort
filesToDelete(dir) ==
    LET S == GeneratedOnDisk(dir)
    IN IF Cardinality(S) > KeepCount
         THEN {f \in S : Cardinality(NewerThan(dir, S, f)) >= KeepCount}
         ELSE {}

\* cleanupOldImages(): every listed file beyond the tenth is unlinked; the
\* unlinks in `failing` throw and are logged (unlinkErrs of the call keeps
\* what the log shows), the others go on
cleanupOldImages(dir, failing) == unlinkAll(dir, filesToDelete(dir) \ failing)

RECURSIVE SortNewestFirst(_, _)
\* .sort((a, b) => b.time - a.time) of the files S
SortNewestFirst(dir, S) ==
    IF S = {} THEN <<>>
    ELSE LET f == CHOOSE x \in S : \A y \in S : dir[y].mtime <= dir[x].mtime
         IN <<f>> \o SortNewestFirst(dir, S \ {f})

(***************************************************************************)
(* One call of generateMealImage.                                          *)
(***************************************************************************)
IdleGen ==
    [pc |-> "idle", slot |-> 0, origin |-> "none", body |-> Undefined,
     meal |-> Undefined, attempts |-> 0, calls |-> 0, pauses |-> 0,
     errs |-> <<>>, temp |-> <<>>, base |-> NoData, logo |-> "none",
     labels |-> <<>>, ret |-> Undefined, wrote |-> <<>>, status |-> 0,
     imagePath |-> Undefined, thrown |-> "", resp |-> "none",
     failed |-> FALSE, unlinkErrs |-> {}]

\* the meal of a call, or Undefined when preparing it throws a TypeError
\* (version 1 reads meal.Breakfast for the prompt at line 188)
PreparedMeal(v, mealData) ==
    IF v = 2 THEN MealV2(mealData)
    ELSE IF CanRead(MealV1(mealData)) THEN MealV1(mealData) ELSE Undefined

\* the call after its synchronous start: waiting for the API, or failed
StartGen(v, slot, origin, mealData) ==
    LET meal == PreparedMeal(v, mealData)
        g == [IdleGen EXCEPT !.slot = slot, !.origin = origin,
                             !.body = mealData, !.meal = meal]
    IN IF meal = Undefined
         THEN [g EXCEPT !.pc = "done", !.thrown = "TypeError",
                        !.status = IF origin = "http" THEN 500 ELSE 0]
         ELSE [g EXCEPT !.pc = "api", !.calls = 1]

\* Rejected in a handler without the catch: the rejection is unhandled and
\* no response is written
RejectedUnanswered(g, err) == [g EXCEPT !.pc = "lost", !.thrown = err]

\* the end of the handler of POST /generate-image when generateMealImage
\* threw: status 500 with the message
Rejected(g, err) ==
    [g EXCEPT !.pc = "done", !.thrown = err,
              !.status = IF g.origin = "http" THEN 500 ELSE 0]

\* the end of the handler when generateMealImage returned `path`: version 2
\* calls imagePath.split, a TypeError when no image part was found
Resolved(v, g, path) ==
    IF g.origin # "http" THEN [g EXCEPT !.pc = "done", !.imagePath = path]
    ELSE IF v = 2 /\ path.t # "string" THEN Rejected(g, "TypeError")
    ELSE [g EXCEPT !.pc = "done", !.status = 200, !.imagePath = path]

(***************************************************************************)
(* The responses of the external API.                                      *)
(***************************************************************************)
TextPart == [text |-> TRUE, inlineData |-> "none"]
ImagePart == [text |-> FALSE, inlineData |-> "png"]
CorruptPart == [text |-> FALSE, inlineData |-> "corrupt"]

ApiResponses ==
    { [candidates |-> TRUE, parts |-> <<TextPart, ImagePart>>],
      [candidates |-> TRUE, parts |-> <<ImagePart>>],
      [candidates |-> TRUE, parts |-> <<CorruptPart>>],
      [candidates |-> TRUE, parts |-> <<TextPart>>],
      [candidates |-> FALSE, parts |-> <<>>] }

\* the part the loop of lines 395-414 stops at: the first one without text
\* and with inline data; 0 when there is none
FirstInline(parts) ==
    LET hits == {i \in 1..Len(parts) :
                   ~parts[i].text /\ parts[i].inlineData # "none"}
    IN IF hits = {} THEN 0 ELSE CHOOSE i \in hits : \A k \in hits : i <= k

\* `temp-${meal.Day.toLowerCase()}-base.png`
tempFilename(day) == StrTemp \o toLowerCase(day) \o StrBase \o StrPng

\* finalImagePath without toLowerCase()
finalImagePathAsGiven(v, day, timestamp, randomId) ==
    IF v = 2
      THEN day \o StrMeals \o StrDash \o Decimal(timestamp)
             \o StrDash \o randomId \o StrPng
      ELSE day \o StrMeals \o StrPng

\* version 2: `${meal.Day.toLowerCase()}-meals-${timestamp}-${randomId}.png`
\* version 1: `${meal.Day.toLowerCase()}-meals.png`
finalImagePath(v, day, timestamp, randomId) ==
    IF v = 2
      THEN toLowerCase(day) \o StrMeals \o StrDash \o Decimal(timestamp)
             \o StrDash \o randomId \o StrPng
      ELSE toLowerCase(day) \o StrMeals \o StrPng

\* the dishes forEach draws: `if (dish && textPositions[index])`
drawnLabels(meal) ==
    LET dishes == <<Get(meal, "Breakfast"), Get(meal, "Snack"),
                    Get(meal, "Lunch")>>
    IN [i \in 1..3 |-> IF Truthy(dishes[i]) THEN dishes[i] ELSE Undefined]

\* what the logo area holds after the inner try/catch of addLogoAndLabels
logoArea(v, dir) ==
    IF existsSync(dir, LogoName) THEN "logo"
    ELSE IF v = 1 THEN "placeholder" ELSE "blank"

(***************************************************************************)
(* Initial states.                                                         *)
(***************************************************************************)
\* the directory the service starts in: its source, with or without logo
InitialDirs ==
    { [f \in {SourceName} |-> [mtime |-> 0, data |-> SourceData]],
      [f \in {SourceName, LogoName} |->
         [mtime |-> 0,
          data |-> IF f = LogoName THEN LogoData ELSE SourceData]] }

IdleFetch == [pc |-> "idle", name |-> <<>>, status |-> 0, body |-> NoData,
              json |-> <<>>]
IdleListing == [pc |-> "idle", images |-> <<>>, hasTotal |-> FALSE,
                total |-> 0]
IdlePing == [pc |-> "idle", status |-> 0]

\* lines 500-503 (354-356 in version 1): run as a script, the module calls
\* generateMealImage() once before it serves requests
InitWith(e) ==
    /\ version \in e.versions
    /\ env = e
    /\ files \in e.dirs
    /\ now = 1
    /\ created = <<>>
    /\ \E main \in e.main :
         /\ started = IF main THEN 1 ELSE 0
         /\ gen = [r \in Slots |->
                     IF main /\ r = 1
                       THEN StartGen(version, 1, "startup", Null)
                       ELSE IdleGen]
    /\ fetch = IdleFetch
    /\ listing = IdleListing
    /\ ping = IdlePing

\* one client at a time, sending any of the bodies, to either version
Init ==
    InitWith([dirs |-> InitialDirs, versions |-> {1, 2}, main |-> BOOLEAN,
              slots |-> {1},
              bodies |-> AllBodies, randomIds |-> RandomIds,
              errors |-> ApiErrors, maxGen |-> MaxGen, unlinkFails |-> TRUE,
              anyName |-> TRUE])

\* two clients of version 2 whose generate requests overlap and who also
\* ping, the logo being in place; an API call may never return
LiveInit ==
    InitWith([dirs |-> {d \in InitialDirs : LogoName \in DOMAIN d},
              versions |-> {2}, main |-> {FALSE}, slots |-> {1, 2},
              bodies |-> {BodyArray}, randomIds |-> {<<"a","0">>},
              errors |-> {"unavailable"}, maxGen |-> MaxLiveGen,
              unlinkFails |-> FALSE, anyName |-> FALSE])

\* two clients whose generate requests overlap, to either version
ConcInit ==
    InitWith([dirs |-> InitialDirs,
              versions |-> {1, 2}, main |-> BOOLEAN, slots |-> {1, 2},
              bodies |-> {BodyArray, BodyEmptyObject},
              randomIds |-> {<<"a","0">>}, errors |-> {"unavailable"},
              maxGen |-> MaxConcGen, unlinkFails |-> TRUE,
              anyName |-> FALSE])

\* version 2 serving one client that sends its generate requests one after
\* the other, each with the same well-formed body
SeqInit ==
    InitWith([dirs |-> InitialDirs,
              versions |-> {2}, main |-> {FALSE}, slots |-> {1},
              bodies |-> {BodyArray}, randomIds |-> {<<"a","0">>},
              errors |-> {"unavailable"}, maxGen |-> MaxSeqGen,
              unlinkFails |-> FALSE, anyName |-> FALSE])

\* version 2 serving one client that sends its generate requests one after
\* the other, on a file system where an unlink may fail
JanitorInit ==
    InitWith([dirs |-> InitialDirs,
              versions |-> {2}, main |-> {FALSE}, slots |-> {1},
              bodies |-> {BodyArray}, randomIds |-> {<<"a","0">>},
              errors |-> {"unavailable"}, maxGen |-> MaxJanitorGen,
              unlinkFails |-> TRUE, anyName |-> FALSE])

\* a response is written in the turn of the event loop that produced it
NoResponsePending ==
    /\ \A r \in Slots : gen[r].pc # "done"
    /\ fetch.pc # "done"
    /\ listing.pc # "done"
    /\ ping.pc # "done"

(***************************************************************************)
(* POST /generate-image.                                                   *)
(***************************************************************************)
\* the handler starts generateMealImage(req.body), which runs up to its
\* first API call
PostGenerate(r) ==
    /\ NoResponsePending
    /\ r \in env.slots
    /\ gen[r].pc = "idle"
    /\ started < env.maxGen
    /\ \E body \in env.bodies :
         gen' = [gen EXCEPT ![r] = StartGen(version, r, "http", body)]
    /\ started' = started + 1
    /\ UNCHANGED <<ping, version, env, files, now, created, fetch, listing>>

\* AfterFailure with the loop bound off by one: a pause and a 4th call
\* follow the 3rd failure
AfterFailureOneMore(g, e) ==
    LET n == g.attempts + 1
        h == [g EXCEPT !.attempts = n, !.errs = Append(g.errs, e)]
    IN IF n <= maxAttempts
         THEN [h EXCEPT !.pc = "sleep", !.pauses = g.pauses + 1]
         ELSE Rejected(h, e)

\* AfterFailure that keeps the first error and throws it at the end
AfterFailureFirstError(g, e) ==
    LET n == g.attempts + 1
        h == [g EXCEPT !.attempts = n, !.errs = Append(g.errs, e)]
    IN IF n < maxAttempts
         THEN [h EXCEPT !.pc = "sleep", !.pauses = g.pauses + 1]
         ELSE Rejected(h, h.errs[1])

\* the catch of the retry loop: the call failed with error e
AfterFailure(g, e) ==
    LET n == g.attempts + 1
        h == [g EXCEPT !.attempts = n, !.errs = Append(g.errs, e)]
    IN IF n < maxAttempts
         THEN [h EXCEPT !.pc = "sleep", !.pauses = g.pauses + 1]
         ELSE Rejected(h, e)

ApiReject(r) ==
    /\ NoResponsePending
    /\ gen[r].pc = "api"
    /\ \E e \in env.errors : gen' = [gen EXCEPT ![r] = AfterFailure(gen[r], e)]
    /\ UNCHANGED <<ping, version, env, files, now, started, created, fetch,
                   listing>>

\* the API call never settles: `await genAI.models.generateContent(...)`
\* has no timeout, the call stays suspended for good
ApiHang(r) ==
    /\ NoResponsePending
    /\ gen[r].pc = "api"
    /\ gen' = [gen EXCEPT ![r] = [gen[r] EXCEPT !.pc = "hung"]]
    /\ UNCHANGED <<ping, version, env, files, now, started, created, fetch,
                   listing>>

\* the 5 second pause is over: the loop calls the API again
RetryAfterPause(r) ==
    /\ NoResponsePending
    /\ gen[r].pc = "sleep"
    /\ gen' = [gen EXCEPT ![r] = [gen[r] EXCEPT !.pc = "api",
                                                !.calls = gen[r].calls + 1]]
    /\ UNCHANGED <<ping, version, env, files, now, started, created, fetch,
                   listing>>

\* the statements after `await addLogoAndLabels(...)` returned `ret`:
\* unlinkSync(tempFilename), which throws when the file is gone, then the
\* answer of the handler
AfterCompose(v, g, dir, ret) ==
    IF existsSync(dir, g.temp)
      THEN [dir |-> unlinkAll(dir, {g.temp}),
            g |-> Resolved(v, [g EXCEPT !.ret = ret], ret)]
      ELSE [dir |-> dir, g |-> Rejected([g EXCEPT !.ret = ret], "ENOENT")]

\* the API call returned: the loop over the parts, the write of the base
\* image and the start of addLogoAndLabels up to `await loadImage(imagePath)`
ApiResolve(r) ==
    /\ NoResponsePending
    /\ gen[r].pc = "api"
    /\ \E resp \in ApiResponses :
         LET k == FirstInline(resp.parts)
             g == [gen[r] EXCEPT !.resp = IF ~resp.candidates THEN "empty"
                                          ELSE IF k = 0 THEN "text"
                                          ELSE "image"]
             day == Get(g.meal, "Day")
         IN IF ~resp.candidates
              THEN /\ gen' = [gen EXCEPT ![r] = Rejected(g, "TypeError")]
                   /\ files' = files
            ELSE IF k = 0
              THEN /\ gen' = [gen EXCEPT ![r] = Resolved(version, g, Undefined)]
                   /\ files' = files
            ELSE IF day.t # "string"
              THEN /\ gen' = [gen EXCEPT ![r] = Rejected(g, "TypeError")]
                   /\ files' = files
            ELSE LET temp == tempFilename(day.v)
                     data == BaseData(g.slot, resp.parts[k].inlineData = "png")
                     dir == writeFileSync(files, temp, data, now)
                     h == [g EXCEPT !.pc = "loadBase", !.temp = temp]
                 IN IF version = 2
                      THEN \E failing \in SUBSET filesToDelete(dir) :
                             /\ (failing # {}) => env.unlinkFails
                             /\ files' = cleanupOldImages(dir, failing)
                             /\ gen' = [gen EXCEPT ![r] =
                                          [h EXCEPT !.unlinkErrs = failing]]
                      ELSE /\ files' = dir
                           /\ gen' = [gen EXCEPT ![r] = h]
    /\ UNCHANGED <<ping, version, env, now, started, created, fetch, listing>>

\* composeFailed with a catch that throws the error on to the handler
composeFailedRethrown(v, g, dir) == [dir |-> dir, g |-> Rejected(g, "Error")]

\* the outer catch of addLogoAndLabels: `return imagePath`, then the rest
\* of generateMealImage and of the handler
composeFailed(v, g, dir) == AfterCompose(v, g, dir, Str(g.temp))

\* composeAfterBase without the inner try/catch: a logo that cannot be
\* loaded ends the composition in the outer catch
composeLogoFatal(v, g, dir, time, randomId, written) ==
    LET day == Get(g.meal, "Day")
        h == [g EXCEPT !.logo = logoArea(v, dir),
                       !.labels = drawnLabels(g.meal)]
    IN IF day.t = "string" /\ written /\ existsSync(dir, LogoName)
         THEN LET name == finalImagePath(v, day.v, time, randomId)
                  data == FinalData(g.slot, g.base.by, h.logo)
                  out == AfterCompose(v, [h EXCEPT !.wrote = name],
                                      writeFileSync(dir, name, data, time),
                                      Str(name))
              IN [dir |-> out.dir, g |-> out.g, name |-> name]
         ELSE LET out == AfterCompose(v, [h EXCEPT !.failed = ~written], dir,
                                      Str(g.temp))
              IN [dir |-> out.dir, g |-> out.g, name |-> <<>>]

\* addLogoAndLabels after the base image is drawn: the logo or its
\* fallback, the labels, the name, the encoding and the write of the
\* composed file (which fail when `written` is false), then the rest of
\* generateMealImage and of the handler; `name` is the file written
composeAfterBase(v, g, dir, time, randomId, written) ==
    LET day == Get(g.meal, "Day")
        h == [g EXCEPT !.logo = logoArea(v, dir),
                       !.labels = drawnLabels(g.meal)]
    IN IF day.t = "string" /\ written
         THEN LET name == finalImagePath(v, day.v, time, randomId)
                  data == FinalData(g.slot, g.base.by, h.logo)
                  out == AfterCompose(v, [h EXCEPT !.wrote = name],
                                      writeFileSync(dir, name, data, time),
                                      Str(name))
              IN [dir |-> out.dir, g |-> out.g, name |-> name]
         ELSE LET out == composeFailed(v, [h EXCEPT !.failed = TRUE], dir)
              IN [dir |-> out.dir, g |-> out.g, name |-> <<>>]

\* loadImage(imagePath) settled: the base image is drawn and the logo is
\* requested, or the catch returns imagePath
BaseLoaded(r) ==
    /\ NoResponsePending
    /\ gen[r].pc = "loadBase"
    /\ LET g == gen[r]
           ok == existsSync(files, g.temp) /\ files[g.temp].data.valid
       IN IF ok
            THEN /\ gen' = [gen EXCEPT ![r] =
                              [g EXCEPT !.pc = "loadLogo",
                                        !.base = files[g.temp].data]]
                 /\ files' = files
            ELSE LET out == composeFailed(version, g, files)
                 IN /\ gen' = [gen EXCEPT ![r] = out.g]
                    /\ files' = out.dir
    /\ UNCHANGED <<ping, version, env, now, started, created, fetch, listing>>

\* loadImage('street_nosh_logo.png') settled: the rest of addLogoAndLabels
LogoLoaded(r) ==
    /\ NoResponsePending
    /\ gen[r].pc = "loadLogo"
    /\ \E written \in BOOLEAN : \E randomId \in env.randomIds :
         LET out == composeAfterBase(version, gen[r], files, now, randomId,
                                     written)
         IN /\ gen' = [gen EXCEPT ![r] = out.g]
            /\ files' = out.dir
            /\ now' = IF out.name = <<>> THEN now ELSE now + 1
            /\ created' = IF out.name = <<>> THEN created
                          ELSE Append(created, out.name)
    /\ UNCHANGED <<ping, version, env, started, fetch, listing>>

\* the response has left: the slot is free for the next request
GenerateDone(r) ==
    /\ gen[r].pc = "done"
    /\ gen' = [gen EXCEPT ![r] = IdleGen]
    /\ UNCHANGED <<ping, version, env, files, now, started, created, fetch,
                   listing>>

(***************************************************************************)
(* GET /images/:filename and GET /images.                                  *)
(***************************************************************************)
Range(s) == {s[i] : i \in DOMAIN s}

\* the oldest and the newest of the files S
Extremes(dir, S) ==
    {f \in S : \/ \A g \in S : dir[f].mtime <= dir[g].mtime
               \/ \A g \in S : dir[g].mtime <= dir[f].mtime}

\* the names a client asks for: anything in the directory, anything that
\* was ever composed, and a name that never existed; a client of SeqSpec
\* asks only for the oldest and the newest of the composed files
RequestedNames ==
    IF env.anyName
      THEN DOMAIN files \cup Range(created) \cup {MissingName}
      ELSE (DOMAIN files \ GeneratedOnDisk(files))
             \cup Extremes(files, GeneratedOnDisk(files))
             \cup {created[i] : i \in DOMAIN created \cap {1}}
             \cup {MissingName}

\* the handler: existsSync, then res.sendFile (asynchronous) or the 404
GetImage ==
    /\ NoResponsePending
    /\ fetch.pc = "idle"
    /\ \E name \in RequestedNames :
         fetch' = IF existsSync(files, name)
                    THEN [IdleFetch EXCEPT !.pc = "sending", !.name = name]
                    ELSE [IdleFetch EXCEPT !.pc = "done", !.name = name,
                                           !.status = 404, !.json = name]
    /\ UNCHANGED <<ping, version, env, files, now, started, created, gen,
                   listing>>

\* res.sendFile opens the file: its bytes, or the error of a file that is
\* gone, which express answers with 404
SendFile ==
    /\ NoResponsePending
    /\ fetch.pc = "sending"
    /\ fetch' = IF existsSync(files, fetch.name)
                  THEN [fetch EXCEPT !.pc = "done", !.status = 200,
                                     !.body = files[fetch.name].data]
                  ELSE [fetch EXCEPT !.pc = "done", !.status = 404]
    /\ UNCHANGED <<ping, version, env, files, now, started, created, gen,
                   listing>>

GetImageDone ==
    /\ fetch.pc = "done"
    /\ fetch' = IdleFetch
    /\ UNCHANGED <<ping, version, env, files, now, started, created, gen,
                   listing>>

\* the orders readdirSync may list the files S in
Orders(S) ==
    {s \in [1..Cardinality(S) -> S] : \A i, j \in DOMAIN s : s[i] = s[j] => i = j}

\* GET /images: version 2 filters by the pattern and sorts newest first,
\* version 1 filters by the suffix and keeps the order of readdirSync
ListImages ==
    /\ NoResponsePending
    /\ listing.pc = "idle"
    /\ IF version = 2
         THEN LET images == SortNewestFirst(files, GeneratedOnDisk(files))
              IN listing' = [pc |-> "done", images |-> images,
                             hasTotal |-> TRUE, total |-> Len(images)]
         ELSE \E images \in Orders({f \in DOMAIN files : MatchesGeneratedV1(f)}) :
                listing' = [pc |-> "done", images |-> images,
                            hasTotal |-> FALSE, total |-> 0]
    /\ UNCHANGED <<ping, version, env, files, now, started, created, gen,
                   fetch>>

ListImagesDone ==
    /\ listing.pc = "done"
    /\ listing' = IdleListing
    /\ UNCHANGED <<ping, version, env, files, now, started, created, gen,
                   fetch>>

\* GET /ping: answered at once with status 200
Ping ==
    /\ NoResponsePending
    /\ ping.pc = "idle"
    /\ ping' = [pc |-> "done", status |-> 200]
    /\ UNCHANGED <<version, env, files, now, started, created, gen, fetch,
                   listing>>

PingDone ==
    /\ ping.pc = "done"
    /\ ping' = IdlePing
    /\ UNCHANGED <<version, env, files, now, started, created, gen, fetch,
                   listing>>

(***************************************************************************)
(* Specifications.                                                         *)
(***************************************************************************)
Next ==
    \/ \E r \in Slots : PostGenerate(r)
    \/ \E r \in Slots : ApiReject(r)
    \/ \E r \in Slots : RetryAfterPause(r)
    \/ \E r \in Slots : ApiResolve(r)
    \/ \E r \in Slots : BaseLoaded(r)
    \/ \E r \in Slots : LogoLoaded(r)
    \/ \E r \in Slots : GenerateDone(r)
    \/ GetImage
    \/ SendFile
    \/ GetImageDone
    \/ ListImages
    \/ ListImagesDone

Spec == Init /\ [][Next]_vars

ConcSpec == ConcInit /\ [][Next]_vars

SeqSpec == SeqInit /\ [][Next]_vars

JanitorSpec == JanitorInit /\ [][Next]_vars

\* the service with its ping endpoint and an API that may hang
LiveNext ==
    \/ Next
    \/ \E r \in Slots : ApiHang(r)
    \/ Ping
    \/ PingDone

\* the continuation of call r that is ready: the settled API call, the
\* timer of the pause, a settled load of an image file, the written response
GenerateStep(r) ==
    \/ ApiResolve(r)
    \/ ApiReject(r)
    \/ RetryAfterPause(r)
    \/ BaseLoaded(r)
    \/ LogoLoaded(r)
    \/ GenerateDone(r)

\* what the event loop guarantees: a continuation that is ready again and
\* again is run.  An API call that does not hang settles, the timer of the
\* pause fires, the loads of the image files settle, sendFile opens the
\* file, and a response that was written leaves.  Nothing makes a client
\* send a request and nothing makes a hung call return.
Fairness ==
    /\ \A r \in Slots : SF_vars(GenerateStep(r))
    /\ SF_vars(SendFile \/ GetImageDone)
    /\ WF_vars(ListImagesDone)
    /\ WF_vars(PingDone)

LiveSpec == LiveInit /\ [][LiveNext]_vars /\ Fairness

(***************************************************************************)
(* Claims.                                                                 *)
(***************************************************************************)
HttpDone(r) == gen[r].pc = "done" /\ gen[r].origin = "http"

\* the last k names of a sequence
LastNames(s, k) == {s[i] : i \in {j \in DOMAIN s : j > Len(s) - k}}

\* C1: in version 2, started on a directory without generated files, once
\* more than 10 successive generate requests have succeeded and none is in
\* flight, exactly 10 files matching the pattern are on disk: the 10 most
\* recently created.  (SeqSpec; the code leaves 11.)
C1_TenNewestRemain ==
    (gen[1].pc = "idle" /\ Len(created) > 10)
      => /\ Cardinality(GeneratedOnDisk(files)) = 10
         /\ GeneratedOnDisk(files) = LastNames(created, 10)

\* C2: a call of generateMealImage calls the API at most 3 times; when the
\* 3rd call has failed the request is answered with HTTP 500 and no 4th call
\* is made.
C2_AtMostThreeCalls ==
    \A r \in Slots :
      /\ gen[r].calls <= 3
      /\ gen[r].attempts <= 3
      /\ gen[r].attempts = 3 =>
           /\ gen[r].pc = "done"
           /\ gen[r].calls = 3
           /\ gen[r].origin = "http" => gen[r].status = 500

\* C2 witness: a POST request answered 500 after exactly 3 failed calls
C2_Witness ==
    \E r \in Slots :
      /\ HttpDone(r)
      /\ gen[r].attempts = 3
      /\ gen[r].calls = 3
      /\ gen[r].status = 500

\* a meal record: an object whose fields, where present, are non-empty text
IsMealRecord(x) ==
    /\ x.t = "object"
    /\ \A f \in DOMAIN x.p : x.p[f].t = "string" /\ x.p[f].v # <<>>

\* the meal record a body supplies: the object itself or the first element
HasSuppliedMeal(body) ==
    \/ IsMealRecord(body)
    \/ body.t = "array" /\ Len(body.e) > 0 /\ IsMealRecord(body.e[1])

SuppliedMeal(body) == IF body.t = "array" THEN body.e[1] ELSE body

\* the supplied value where the field is present, the default where omitted
ExpectedMeal(body) ==
    Obj([f \in Fields |->
           IF f \in DOMAIN SuppliedMeal(body).p
             THEN SuppliedMeal(body).p[f]
             ELSE defaultMeal.p[f]])

\* C3: for a body that is a meal record or a non-empty sequence of meal
\* records, generateMealImage of either version works on the meal that
\* holds the supplied value of each present field and the default of each
\* omitted one.  (Version 1 does not.)
C3_DefaultsFieldByField ==
    \A r \in Slots :
      (gen[r].origin = "http" /\ HasSuppliedMeal(gen[r].body))
        => gen[r].meal = ExpectedMeal(gen[r].body)

\* C4: GET /images/:filename answers 404 with the requested name in the
\* JSON body for every name no generation produced, and sends bytes only
\* of a composed file.  (The code sends any file of the directory.)
C4_OnlyGeneratedServed ==
    fetch.pc = "done" =>
      IF fetch.name \in Range(created)
        THEN fetch.status = 200 => fetch.body.kind = "final"
        ELSE fetch.status = 404 /\ fetch.json = fetch.name

\* the record of the body has all four fields, each a non-empty text
AllFourPresent(body) ==
    /\ HasSuppliedMeal(body)
    /\ DOMAIN SuppliedMeal(body).p = Fields

\* name = <day in lowercase>-meals-<decimal digits>-<lowercase hex>.png
HasTimestampForm(name, day) ==
    LET d == Len(day)
        n == Len(name)
    IN /\ n >= d + 7 + 1 + 1 + 1 + 4
       /\ \A i \in 1..d : name[i] = LowerChar(day[i])
       /\ SubSeq(name, d + 1, d + 7) = <<"-","m","e","a","l","s","-">>
       /\ SubSeq(name, n - 3, n) = <<".","p","n","g">>
       /\ \E j \in (d + 8)..(n - 6) :
            /\ name[j + 1] = "-"
            /\ \A i \in (d + 8)..j : name[i] \in DigitChars
            /\ \A i \in (j + 2)..(n - 4) : name[i] \in HexChars

\* name = <day in lowercase>-meals.png
HasPlainForm(name, day) ==
    LET d == Len(day)
    IN /\ Len(name) = d + 10
       /\ \A i \in 1..d : name[i] = LowerChar(day[i])
       /\ SubSeq(name, d + 1, d + 10) =
            <<"-","m","e","a","l","s",".","p","n","g">>

C6_MalformedRecovered ==
    \A r \in Slots :
      (HttpDone(r) /\ gen[r].resp = "image") => gen[r].status = 200

\* the composition of call r reached the logo and neither the encoding nor
\* the write failed, but the logo could not be loaded
LogoMissed(r) ==
    /\ gen[r].pc = "done"
    /\ gen[r].logo \in {"placeholder", "blank"}
    /\ ~gen[r].failed

\* C7: when the logo cannot be loaded, addLogoAndLabels still draws the
\* labels, writes the composed file and returns its name, over a placeholder
\* (version 1) or a blank area (version 2); the request is answered as with
\* a logo: 200 with that name, unless unlinking the temp file throws.
C7_LogoNeverFatal ==
    \A r \in Slots :
      LogoMissed(r) =>
        /\ gen[r].labels = drawnLabels(gen[r].meal)
        /\ gen[r].wrote # <<>>
        /\ gen[r].ret = Str(gen[r].wrote)
        /\ existsSync(files, gen[r].wrote)
        /\ files[gen[r].wrote].data.logo =
             (IF version = 1 THEN "placeholder" ELSE "blank")
        /\ gen[r].origin = "http" =>
             \/ gen[r].status = 200 /\ gen[r].imagePath = Str(gen[r].wrote)
             \/ gen[r].status = 500 /\ gen[r].thrown = "ENOENT"

\* C7 witness: a POST answered 200 with a file composed without the logo
C7_Witness ==
    \E r \in Slots :
      /\ HttpDone(r) /\ LogoMissed(r)
      /\ ~existsSync(files, LogoName)
      /\ gen[r].status = 200
      /\ gen[r].imagePath = Str(gen[r].wrote)
      /\ gen[r].labels[1] # Undefined

\* the composed files in the directory
ComposedOnDisk == {f \in DOMAIN files : files[f].data.kind = "final"}

\* C8: GET /images lists exactly the composed files on disk, each once; in
\* version 2 newest first, with total their number.  (A file whose Day has
\* a character outside \w is never listed.)
C8_ListingExact ==
    listing.pc = "done" =>
      /\ Range(listing.images) = ComposedOnDisk
      /\ Len(listing.images) = Cardinality(ComposedOnDisk)
      /\ version = 2 =>
           /\ listing.hasTotal /\ listing.total = Len(listing.images)
           /\ \A i, j \in DOMAIN listing.images :
                i < j => files[listing.images[i]].mtime
                           >= files[listing.images[j]].mtime

\* C9: in the retry loop a pause follows a failed call exactly when another
\* call follows (none after the 3rd failure), the first call that succeeds
\* is the last one, and when all calls failed the error thrown is that of
\* the last call.
C9_RetryLoop ==
    \A r \in Slots :
      LET g == gen[r] IN
      /\ Len(g.errs) = g.attempts
      /\ g.pauses <= 2
      /\ g.pc = "sleep" => g.attempts \in {1, 2} /\ g.pauses = g.attempts
                              /\ g.calls = g.attempts
      /\ g.pc = "api" => g.pauses = g.attempts /\ g.calls = g.attempts + 1
      /\ g.pc \in {"loadBase", "loadLogo"} =>
           g.pauses = g.attempts /\ g.calls = g.attempts + 1
      /\ (g.pc = "done" /\ g.resp # "none") =>
           g.attempts < 3 /\ g.pauses = g.attempts
             /\ g.calls = g.attempts + 1
      /\ (g.pc = "done" /\ g.resp = "none" /\ g.calls > 0) =>
           /\ g.attempts = 3 /\ g.calls = 3 /\ g.pauses = 2
           /\ g.thrown = g.errs[3]

\* C9 witness: three failed calls whose last error differs from the first,
\* and the last one is thrown
C9_Witness ==
    \E r \in Slots :
      /\ gen[r].pc = "done"
      /\ gen[r].attempts = 3
      /\ gen[r].pauses = 2
      /\ gen[r].errs[3] # gen[r].errs[1]
      /\ gen[r].thrown = gen[r].errs[3]

\* addLogoAndLabels was called by call r, which has ended
Composed(r) == gen[r].pc = "done" /\ gen[r].temp # <<>>

\* the base image could not be loaded, or the encoding or the write failed
ComposeError(r) == gen[r].base.kind = "none" \/ gen[r].failed

\* C10: addLogoAndLabels never throws: it returns the name of the file it
\* wrote, or on an internal error the path it was given, and then it wrote
\* no file; what the handler catches afterwards comes from unlinkSync.
C10_ComposeNeverThrows ==
    \A r \in Slots :
      Composed(r) =>
        /\ gen[r].ret # Undefined
        /\ gen[r].thrown \in {"", "ENOENT"}
        /\ IF ComposeError(r)
             THEN gen[r].wrote = <<>> /\ gen[r].ret = Str(gen[r].temp)
             ELSE /\ gen[r].wrote # <<>>
                  /\ gen[r].wrote # gen[r].temp
                  /\ gen[r].ret = Str(gen[r].wrote)
                  /\ existsSync(files, gen[r].wrote)

\* C10 witness: a base image that could not be loaded, and the path given
\* is returned
C10_Witness ==
    \E r \in Slots :
      /\ Composed(r)
      /\ gen[r].base.kind = "none"
      /\ gen[r].wrote = <<>>
      /\ gen[r].ret = Str(gen[r].temp)

\* a step in which call r runs the janitor: the API call returned an image,
\* the base image is written and addLogoAndLabels starts (version 2)
CleanupStep(r) ==
    /\ version = 2
    /\ gen[r].pc = "api"
    /\ gen'[r].pc = "loadBase"

\* the files matching the pattern when the janitor lists the directory
MatchingBefore == {f \in DOMAIN files : MatchesGenerated(f)}

\* the 10 of them with the newest modification time
TenNewestBefore ==
    {f \in MatchingBefore :
       Cardinality({g \in MatchingBefore :
                      files[g].mtime > files[f].mtime}) < 10}

\* C11: a run of cleanupOldImages deletes only files that match the pattern
\* and are not among the 10 newest: never the logo, the temp file or another
\* file, nothing when 10 or fewer match; every other file is left as it was;
\* a failed unlink leaves the other files beyond the tenth deleted and the
\* compositor goes on without an error.
C11_CleanupFrame ==
    [][ \A r \in Slots :
          CleanupStep(r) =>
            LET temp == gen'[r].temp
                deleted == (DOMAIN files \cup {temp}) \ DOMAIN files'
            IN /\ deleted \subseteq MatchingBefore \ TenNewestBefore
               /\ LogoName \notin deleted
               /\ temp \notin deleted
               /\ \A f \in deleted : files[f].data.kind = "final"
               /\ Cardinality(MatchingBefore) <= 10 => deleted = {}
               /\ \A f \in DOMAIN files' \ {temp} : files'[f] = files[f]
               /\ deleted = (MatchingBefore \ TenNewestBefore)
                               \ gen'[r].unlinkErrs
               /\ gen'[r].thrown = ""
      ]_vars

\* C11 witness: the janitor has just run with the logo and the temp file on
\* disk; one unlink failed and that file is still there, while a newer file
\* beyond the tenth was deleted
C11_Witness ==
    \E r \in Slots :
      /\ version = 2
      /\ gen[r].pc = "loadBase"
      /\ gen[r].unlinkErrs # {}
      /\ gen[r].unlinkErrs \subseteq DOMAIN files
      /\ existsSync(files, LogoName)
      /\ existsSync(files, gen[r].temp)
      /\ \E i, j \in DOMAIN created :
           /\ i < j
           /\ created[i] \in gen[r].unlinkErrs
           /\ ~existsSync(files, created[j])

\* call r is between its cleanupOldImages() and the write of its composed
\* file: it waits for one of the two loadImage calls (version 2)
BetweenCleanupAndWrite(r) ==
    /\ version = 2
    /\ gen[r].origin = "http"
    /\ gen[r].pc \in {"loadBase", "loadLogo"}

\* C12: between the cleanupOldImages call of a request and the write of its
\* composed file no other request creates, deletes or lists generated
\* files.  (Two awaits lie between the two: other handlers run there.)
C12_CleanupWriteAtomic ==
    [][ \A r \in Slots :
          (BetweenCleanupAndWrite(r) /\ gen'[r] = gen[r]) =>
            /\ GeneratedOnDisk(files') = GeneratedOnDisk(files)
            /\ ~(listing.pc = "idle" /\ listing'.pc = "done")
      ]_vars

\* the file of the GET /images/:filename request passed existsSync and
\* res.sendFile has not opened it yet
Serving(f) == fetch.pc = "sending" /\ fetch.name = f

\* C13: nothing protects a generated file between the existence check of
\* GET /images/:filename and the sending of its bytes: whenever such a file
\* disappears in that window, version 2 is running and a generate call's
\* cleanup has just deleted it as one of the files beyond the 10 newest,
\* the serving request being left as it was, to find the file gone.
C13_MidReadDeletion ==
    [][ \A f \in DOMAIN files :
          (Serving(f) /\ MatchesGenerated(f) /\ ~existsSync(files', f)) =>
            /\ \E r \in Slots : CleanupStep(r)
            /\ f \in MatchingBefore \ TenNewestBefore
            /\ fetch' = fetch
      ]_vars

\* C13 witness: the serving request passed its check for a generated file,
\* a generate call in flight has run its cleanup, and the file is gone
\* before its bytes are sent
C13_Witness ==
    /\ fetch.pc = "sending"
    /\ MatchesGenerated(fetch.name)
    /\ fetch.name \in Range(created)
    /\ ~existsSync(files, fetch.name)
    /\ \E r \in Slots : gen[r].pc = "loadBase" /\ gen[r].origin = "http"

\* call r is a POST /generate-image request that has not been answered
InFlight(r) == gen[r].origin = "http" /\ gen[r].pc # "done"

\* C14: a POST /generate-image request whose API calls all return is
\* answered, once, with 200 or 500; a request whose API call never returns
\* is never answered; and every generate, fetch, list and ping request
\* other than a hung one is answered whatever else hangs.  (A request
\* leaves the requests in flight only by its response, so "again and again
\* not in flight" says that each one is answered.)
C14_EveryRequestAnswered ==
    /\ \A r \in Slots : []<>(~InFlight(r) \/ gen[r].pc = "hung")
    /\ [][ \A r \in Slots :
             (InFlight(r) /\ ~InFlight(r)') =>
               /\ gen'[r].pc = "done"
               /\ gen'[r].status \in {200, 500} ]_vars
    /\ [][ \A r \in Slots :
             HttpDone(r) => gen'[r] \in {gen[r], IdleGen} ]_vars
    /\ [][ \A r \in Slots :
             gen[r].pc = "hung" => gen'[r] = gen[r] /\ gen[r].status = 0 ]_vars
    /\ []<>(fetch.pc = "idle")
    /\ []<>(listing.pc = "idle")
    /\ []<>(ping.pc = "idle")

\* C14 witness: one request hangs in its API call and another one, sent
\* after the hang or before, is answered 200
C14_Witness ==
    \E r, q \in Slots :
      /\ gen[r].pc = "hung" /\ gen[r].origin = "http"
      /\ HttpDone(q) /\ gen[q].status = 200

\* C15: every 200 response of POST /generate-image carries an imagePath
\* that names a file on disk when the response is sent.  (After the
\* compositor's fallback the path is that of the temp file just unlinked;
\* without an inline image part version 1 answers 200 with no path.)
C15_PathNamesFile ==
    \A r \in Slots :
      (HttpDone(r) /\ gen[r].status = 200)
        => /\ gen[r].imagePath.t = "string"
           /\ existsSync(files, gen[r].imagePath.v)

\* no call is between the write of its temp file and its end
NoneComposing ==
    \A r \in Slots : gen[r].pc \notin {"loadBase", "loadLogo"}

\* the temp-<day>-base.png files on disk
TempOnDisk == {f \in DOMAIN files : files[f].data.kind = "base"}

\* C16: requests in flight together do not interfere through the temp
\* file: each one whose API call returned an image is answered 200, what
\* it composed is its own image, and no temp file is left when no call is
\* composing.  (Two requests with the same Day share the file name.)
C16_NoTempInterference ==
    (\A q \in Slots : gen[q].origin # "startup") =>
      /\ \A r \in Slots :
           (HttpDone(r) /\ gen[r].resp = "image") =>
             /\ gen[r].status = 200
             /\ gen[r].base.kind = "base" => gen[r].base.by = gen[r].slot
      /\ NoneComposing => TempOnDisk = {}

=============================================================================
